---- MODULE Spec2Model ----
(***************************************************************************)
(* duo_web: signing of Duo authentication requests and verification of the *)
(* signed responses (src/duo_web/__init__.py).                             *)
(*                                                                         *)
(* A Python byte string is a sequence of character codes 0..255; a code    *)
(* above 255 stands for a character of a unicode object that no byte       *)
(* encoding of Python 2's implicit ASCII conversion can carry.  A Python   *)
(* value that is a string, None or a raised exception is a record          *)
(* [kind, val].                                                            *)
(***************************************************************************)
EXTENDS Integers, Sequences, FiniteSets, TLC

\* now: the clock, in seconds; request: the last call of a sign function and
\* the name of what it returned; response: how the response string in flight
\* was made; last: the last call of a verify function on that response
VARIABLES now, request, response, last

vars == <<now, request, response, last>>

-----------------------------------------------------------------------------
(* Python values *)

PyStr(s) == [kind |-> "str", val |-> s]
PyNone == [kind |-> "None", val |-> <<>>]
PyRaise == [kind |-> "raise", val |-> <<>>]

-----------------------------------------------------------------------------
(* Characters and the module's string constants *)

Pipe == <<124>>
Colon == <<58>>

\* 'TX', 'APP', 'AUTH', 'ENROLL', 'ENROLL_REQUEST'
DUO_PREFIX == <<84, 88>>
APP_PREFIX == <<65, 80, 80>>
AUTH_PREFIX == <<65, 85, 84, 72>>
ENROLL_PREFIX == <<69, 78, 82, 79, 76, 76>>
ENROLL_REQUEST_PREFIX == <<69, 78, 82, 79, 76, 76, 95, 82, 69, 81, 85, 69, 83, 84>>

DUO_EXPIRE == 300
APP_EXPIRE == 3600

IKEY_LEN == 20
SKEY_LEN == 40
AKEY_LEN == 40

\* the decimal rendering of a natural number: str(n)
RECURSIVE Str(_)
Str(n) == IF n < 10 THEN <<48 + n>> ELSE Str(n \div 10) \o <<48 + (n % 10)>>

\* 'ERR|The username passed to sign_request() is invalid.'
ERR_USER == <<69, 82, 82, 124, 84, 104, 101, 32, 117, 115, 101, 114, 110, 97, 109, 101, 32, 112, 97, 115, 115, 101, 100, 32, 116, 111, 32, 115, 105, 103, 110, 95, 114, 101, 113, 117, 101, 115, 116, 40, 41, 32, 105, 115, 32, 105, 110, 118, 97, 108, 105, 100, 46>>
\* 'ERR|The Duo integration key passed to sign_request() is invalid.'
ERR_IKEY == <<69, 82, 82, 124, 84, 104, 101, 32, 68, 117, 111, 32, 105, 110, 116, 101, 103, 114, 97, 116, 105, 111, 110, 32, 107, 101, 121, 32, 112, 97, 115, 115, 101, 100, 32, 116, 111, 32, 115, 105, 103, 110, 95, 114, 101, 113, 117, 101, 115, 116, 40, 41, 32, 105, 115, 32, 105, 110, 118, 97, 108, 105, 100, 46>>
\* 'ERR|The Duo secret key passed to sign_request() is invalid.'
ERR_SKEY == <<69, 82, 82, 124, 84, 104, 101, 32, 68, 117, 111, 32, 115, 101, 99, 114, 101, 116, 32, 107, 101, 121, 32, 112, 97, 115, 115, 101, 100, 32, 116, 111, 32, 115, 105, 103, 110, 95, 114, 101, 113, 117, 101, 115, 116, 40, 41, 32, 105, 115, 32, 105, 110, 118, 97, 108, 105, 100, 46>>
\* 'ERR|The application secret key passed to sign_request() must be at least
\* %s characters.' % AKEY_LEN
ERR_AKEY ==
    <<69, 82, 82, 124, 84, 104, 101, 32, 97, 112, 112, 108, 105, 99, 97, 116, 105, 111, 110, 32, 115, 101, 99, 114, 101, 116, 32, 107, 101, 121, 32, 112, 97, 115, 115, 101, 100, 32, 116, 111, 32, 115, 105, 103, 110, 95, 114, 101, 113, 117, 101, 115, 116, 40, 41, 32, 109, 117, 115, 116, 32, 98, 101, 32, 97, 116, 32, 108, 101, 97, 115, 116, 32>>
    \o Str(AKEY_LEN)
    \o <<32, 99, 104, 97, 114, 97, 99, 116, 101, 114, 115, 46>>
\* 'ERR|An unknown error has occurred.'
ERR_UNKNOWN == <<69, 82, 82, 124, 65, 110, 32, 117, 110, 107, 110, 111, 119, 110, 32, 101, 114, 114, 111, 114, 32, 104, 97, 115, 32, 111, 99, 99, 117, 114, 114, 101, 100, 46>>

-----------------------------------------------------------------------------
(* Strings: join, split, decimal integers *)

\* the string of n copies of the character c
Rep(c, n) == [i \in 1..n |-> c]

\* sep.join(parts)
RECURSIVE Join(_, _)
Join(parts, sep) ==
    IF Len(parts) = 0 THEN <<>>
    ELSE IF Len(parts) = 1 THEN parts[1]
    ELSE parts[1] \o sep \o Join(Tail(parts), sep)

\* s.split(c) for a one-character separator: always at least one part
Split(s, sep) ==
    LET c == sep[1]
        cuts == {i \in 1..Len(s) : s[i] = c}
        \* the k-th part runs from after the (k-1)-th separator to before the k-th
        CutAt[k \in 0..Cardinality(cuts) + 1] ==
            IF k = 0 THEN 0
            ELSE IF k = Cardinality(cuts) + 1 THEN Len(s) + 1
            ELSE CHOOSE i \in cuts : Cardinality({j \in cuts : j < i}) = k - 1
    IN [k \in 1..Cardinality(cuts) + 1 |->
            SubSeq(s, CutAt[k - 1] + 1, CutAt[k] - 1)]

IsDigit(c) == c >= 48 /\ c <= 57
\* the characters str.strip() and int() skip: space, \t, \n, \v, \f, \r
IsSpace(c) == c = 32 \/ (c >= 9 /\ c <= 13)

RECURSIVE DigitsValue(_)
DigitsValue(s) ==
    IF Len(s) = 0 THEN 0
    ELSE 10 * DigitsValue(SubSeq(s, 1, Len(s) - 1)) + (s[Len(s)] - 48)

\* int(s) of Python 2 for a string: surrounding whitespace is skipped, one
\* sign is allowed, then come one or more decimal digits; anything else
\* raises ValueError.  [ok, val]
PyInt(s) ==
    LET inner == {i \in 1..Len(s) : ~IsSpace(s[i])}
        lo == CHOOSE i \in inner : \A j \in inner : i <= j
        hi == CHOOSE i \in inner : \A j \in inner : j <= i
        signed == s[lo] = 43 \/ s[lo] = 45
        first == IF signed THEN lo + 1 ELSE lo
        digits == SubSeq(s, first, hi)
    IN IF inner = {} THEN [ok |-> FALSE, val |-> 0]
       ELSE IF Len(digits) = 0 \/ \E i \in 1..Len(digits) : ~IsDigit(digits[i])
       THEN [ok |-> FALSE, val |-> 0]
       ELSE [ok |-> TRUE,
             val |-> IF s[lo] = 45 THEN 0 - DigitsValue(digits) ELSE DigitsValue(digits)]

-----------------------------------------------------------------------------
(* base64 (standard alphabet), as base64.b64encode / b64decode of Python 2 *)

\* the character of a 6-bit value: A-Z, a-z, 0-9, +, /
B64Char(v) ==
    IF v < 26 THEN 65 + v
    ELSE IF v < 52 THEN 97 + (v - 26)
    ELSE IF v < 62 THEN 48 + (v - 52)
    ELSE IF v = 62 THEN 43 ELSE 47

\* the 6-bit value of a character of the alphabet, -1 for any other character
B64Val(c) ==
    IF c >= 65 /\ c <= 90 THEN c - 65
    ELSE IF c >= 97 /\ c <= 122 THEN c - 97 + 26
    ELSE IF c >= 48 /\ c <= 57 THEN c - 48 + 52
    ELSE IF c = 43 THEN 62
    ELSE IF c = 47 THEN 63
    ELSE -1

B64Pad == 61

\* base64.b64encode(s) for a byte string s: three bytes give four
\* characters, a last group of one or two bytes is padded with '='
B64EncodeBytes(s) ==
    [j \in 1..4 * ((Len(s) + 2) \div 3) |->
        LET i == 3 * ((j - 1) \div 4)
            k == (j - 1) % 4
        IN IF k = 0 THEN B64Char(s[i + 1] \div 4)
           ELSE IF k = 1
           THEN B64Char((s[i + 1] % 4) * 16 + (IF i + 2 <= Len(s) THEN s[i + 2] \div 16 ELSE 0))
           ELSE IF k = 2
           THEN IF i + 2 > Len(s) THEN B64Pad
                ELSE B64Char((s[i + 2] % 16) * 4
                             + (IF i + 3 <= Len(s) THEN s[i + 3] \div 64 ELSE 0))
           ELSE IF i + 3 > Len(s) THEN B64Pad ELSE B64Char(s[i + 3] % 64)]

\* base64.b64encode(val): a unicode object with a character outside ASCII
\* cannot be converted to bytes and raises UnicodeEncodeError
b64encode(s) ==
    IF \E i \in 1..Len(s) : s[i] > 255 THEN PyRaise ELSE PyStr(B64EncodeBytes(s))

\* a character of the alphabet
B64Data(c) == c <= 127 /\ B64Val(c) >= 0
\* a character binascii.a2b_base64 does not skip
B64Valid(c) == B64Data(c) \/ c = B64Pad

\* binascii.a2b_base64 skips the characters outside the alphabet.  A '=' ends
\* the input when three characters of the current group of four have been
\* read, or two and the next character that is not skipped is a '=' too; any
\* other '=' is skipped.  B64End is the position of the '=' that ends the
\* input, Len(s) + 1 when there is none.
B64End(s) ==
    LET Quad(i) == Cardinality({j \in 1..i - 1 : B64Data(s[j])}) % 4
        NextIsPad(i) ==
            \E j \in i + 1..Len(s) :
                /\ s[j] = B64Pad
                /\ \A k \in i + 1..j - 1 : ~B64Valid(s[k])
        ends == {i \in 1..Len(s) :
                    s[i] = B64Pad /\ (Quad(i) = 3 \/ (Quad(i) = 2 /\ NextIsPad(i)))}
    IN CHOOSE e \in ends \cup {Len(s) + 1} : \A k \in ends : e <= k

\* the 6-bit values of the characters that are decoded
B64Sextets(s) ==
    LET data == SelectSeq(SubSeq(s, 1, B64End(s) - 1), B64Data)
    IN [i \in 1..Len(data) |-> B64Val(data[i])]

\* every four 6-bit values give three bytes
B64Bytes(v) ==
    [k \in 1..(Len(v) * 6) \div 8 |->
        LET a == (8 * (k - 1)) \div 6 + 1
            r == (8 * (k - 1)) % 6
        IN IF r = 0 THEN v[a] * 4 + v[a + 1] \div 16
           ELSE IF r = 2 THEN (v[a] % 16) * 16 + v[a + 1] \div 4
           ELSE (v[a] % 4) * 64 + v[a + 1]]

\* bits left over at the end of an input that no '=' ended raise TypeError
\* ('Incorrect padding')
B64Finish(ended, v) ==
    IF ~ended /\ Len(v) % 4 # 0 THEN PyRaise ELSE PyStr(B64Bytes(v))

\* base64.b64decode(s)
b64decode(s) == B64Finish(B64End(s) <= Len(s), B64Sextets(s))

-----------------------------------------------------------------------------
(* HMAC-SHA1 *)

\* SHA-1's block size in bytes
BlockSize == 64

\* the first of the characters that stand for the characters of a digest
DigestBase == 1000

\* hmac.new pads a key of at most BlockSize bytes with NUL bytes up to the
\* block size (RFC 2104); the keys of the model are never longer
KeyBlock(key) == key \o Rep(0, BlockSize - Len(key))

\* hmac.new(key, msg, hashlib.sha1).hexdigest(), with SHA-1 idealised as a
\* collision-free hash: the digest carries what the inner hash is fed, the
\* key block followed by the message, character by character in an alphabet
\* of its own (no '|', no ':'), so two digests are equal exactly when the key
\* blocks and the messages are equal
_hmac_sha1(key, msg) ==
    LET fed == KeyBlock(key) \o msg
    IN [j \in 1..Len(fed) |-> DigestBase + fed[j]]

-----------------------------------------------------------------------------
(* The functions of duo_web.  A function that reads time.time() takes the  *)
(* clock's value as its last parameter.  A Python function is a chain of   *)
(* operators, one for each stretch of its statements: an operator gets the *)
(* values computed so far and hands on to the next.                        *)

\* _sign_vals, its last two statements: the signature of the cookie
\* a variant of the signing: key and message of the HMAC change places
SignCookie_swapped(key, cookie) == cookie \o Pipe \o _hmac_sha1(cookie, key)

SignCookie(key, cookie) == cookie \o Pipe \o _hmac_sha1(key, cookie)

\* _sign_vals, from the cookie on; b64encode may have raised
SignEncoded(key, prefix, b64) ==
    IF b64.kind = "raise" THEN PyRaise
    ELSE PyStr(SignCookie(key, prefix \o Pipe \o b64.val))

\* _sign_vals(key, vals, prefix, expire) at clock time t: a string, or the
\* exception of a value that is no byte string
_sign_vals(key, vals, prefix, expire, t) ==
    SignEncoded(key, prefix, b64encode(Join(vals \o <<Str(t + expire)>>, Pipe)))

\* _parse_vals, the comparison with the expiration and the return
\* a variant of the comparison of the expiration: the value is still taken
\* in the second of its expiration
ParseExpiry_inclusive(user, exp, ts) ==
    IF ~exp.ok THEN PyRaise
    ELSE IF ts > exp.val THEN PyNone
    ELSE PyStr(user)

ParseExpiry(user, exp, ts) ==
    IF ~exp.ok THEN PyRaise
    ELSE IF ts >= exp.val THEN PyNone
    ELSE PyStr(user)

\* _parse_vals, the unpacking of the decoded payload
\* a variant of the unpacking of the payload: the expiration is not compared
ParseFields_noexpiry(fields, ts) ==
    IF Len(fields) # 3 THEN PyRaise
    ELSE IF ~PyInt(fields[3]).ok THEN PyRaise
    ELSE PyStr(fields[1])

ParseFields(fields, ts) ==
    IF Len(fields) # 3 THEN PyRaise
    ELSE ParseExpiry(fields[1], PyInt(fields[3]), ts)

\* _parse_vals, the decoding of the payload
ParseDecoded(decoded, ts) ==
    IF decoded.kind = "raise" THEN PyRaise
    ELSE ParseFields(Split(decoded.val, Pipe), ts)

\* a variant of _parse_vals: the signature is not compared
ParseSigned_unsigned(key, u_prefix, u_b64, u_sig, prefix, ts) ==
    IF u_prefix # prefix THEN PyNone
    ELSE ParseDecoded(b64decode(u_b64), ts)

\* a variant of _parse_vals: the prefix is not compared
ParseSigned_anyprefix(key, u_prefix, u_b64, u_sig, prefix, ts) ==
    IF _hmac_sha1(key, _hmac_sha1(key, u_prefix \o Pipe \o u_b64)) # _hmac_sha1(key, u_sig)
    THEN PyNone
    ELSE ParseDecoded(b64decode(u_b64), ts)

\* _parse_vals, the check of the signature and of the prefix
ParseSigned(key, u_prefix, u_b64, u_sig, prefix, ts) ==
    IF _hmac_sha1(key, _hmac_sha1(key, u_prefix \o Pipe \o u_b64)) # _hmac_sha1(key, u_sig)
    THEN PyNone
    ELSE IF u_prefix # prefix THEN PyNone
    ELSE ParseDecoded(b64decode(u_b64), ts)

\* _parse_vals, the unpacking of the three fields
ParseParts(key, parts, prefix, ts) ==
    IF Len(parts) # 3 THEN PyRaise
    ELSE ParseSigned(key, parts[1], parts[2], parts[3], prefix, ts)

\* _parse_vals(key, val, prefix) at clock time ts: the user name, None, or
\* the exception of an unpacking, a decoding or an int() that fails
_parse_vals(key, val, prefix, ts) == ParseParts(key, Split(val, Pipe), prefix, ts)

\* _sign_request, the return after the try block
SignedBoth(duo_sig, app_sig) ==
    IF duo_sig.kind = "raise" \/ app_sig.kind = "raise" THEN PyStr(ERR_UNKNOWN)
    ELSE PyStr(duo_sig.val \o Colon \o app_sig.val)

\* a variant of _sign_request: the integration key is checked first
_sign_request_reordered(ikey, skey, akey, username, prefix, t) ==
    IF Len(ikey) = 0 \/ Len(ikey) # IKEY_LEN THEN PyStr(ERR_IKEY)
    ELSE IF Len(username) = 0 THEN PyStr(ERR_USER)
    ELSE IF Len(skey) = 0 \/ Len(skey) # SKEY_LEN THEN PyStr(ERR_SKEY)
    ELSE IF Len(akey) = 0 \/ Len(akey) < AKEY_LEN THEN PyStr(ERR_AKEY)
    ELSE SignedBoth(_sign_vals(skey, <<username, ikey>>, prefix, DUO_EXPIRE, t),
                    _sign_vals(akey, <<username, ikey>>, APP_PREFIX, APP_EXPIRE, t))

\* a variant of _sign_request: the application half lives as long as the
\* provider half
_sign_request_short_app(ikey, skey, akey, username, prefix, t) ==
    IF Len(username) = 0 THEN PyStr(ERR_USER)
    ELSE IF Len(ikey) = 0 \/ Len(ikey) # IKEY_LEN THEN PyStr(ERR_IKEY)
    ELSE IF Len(skey) = 0 \/ Len(skey) # SKEY_LEN THEN PyStr(ERR_SKEY)
    ELSE IF Len(akey) = 0 \/ Len(akey) < AKEY_LEN THEN PyStr(ERR_AKEY)
    ELSE SignedBoth(_sign_vals(skey, <<username, ikey>>, prefix, DUO_EXPIRE, t),
                    _sign_vals(akey, <<username, ikey>>, APP_PREFIX, DUO_EXPIRE, t))

\* _sign_request(ikey, skey, akey, username, prefix) at clock time t
_sign_request(ikey, skey, akey, username, prefix, t) ==
    IF Len(username) = 0 THEN PyStr(ERR_USER)
    ELSE IF Len(ikey) = 0 \/ Len(ikey) # IKEY_LEN THEN PyStr(ERR_IKEY)
    ELSE IF Len(skey) = 0 \/ Len(skey) # SKEY_LEN THEN PyStr(ERR_SKEY)
    ELSE IF Len(akey) = 0 \/ Len(akey) < AKEY_LEN THEN PyStr(ERR_AKEY)
    ELSE SignedBoth(_sign_vals(skey, <<username, ikey>>, prefix, DUO_EXPIRE, t),
                    _sign_vals(akey, <<username, ikey>>, APP_PREFIX, APP_EXPIRE, t))

sign_request(ikey, skey, akey, username, t) ==
    _sign_request(ikey, skey, akey, username, DUO_PREFIX, t)

sign_enroll_request(ikey, skey, akey, username, t) ==
    _sign_request(ikey, skey, akey, username, ENROLL_REQUEST_PREFIX, t)

\* What _verify_response leaves: its locals user and app_user and what it
\* returns.  A local that is never assigned is None here.

\* a variant of the return: the two users are not compared
VerifyUsers_unbound(user, app_user) ==
    [user |-> user, app_user |-> app_user,
     ret |-> IF app_user.kind = "raise" THEN PyNone ELSE user]

\* _verify_response, the comparison of the two users and the return
VerifyUsers(user, app_user) ==
    [user |-> user, app_user |-> app_user,
     ret |-> IF app_user.kind = "raise" THEN PyNone
             ELSE IF user # app_user THEN PyNone
             ELSE user]

\* a variant of _verify_response with no try block: the exception of the
\* first call of _parse_vals leaves the function
VerifyApp_raising(user, akey, app_sig, t) ==
    IF user.kind = "raise" THEN [user |-> user, app_user |-> PyNone, ret |-> user]
    ELSE VerifyUsers(user, _parse_vals(akey, app_sig, APP_PREFIX, t))

\* _verify_response, the second call of _parse_vals; an exception of the
\* first has left the try block
VerifyApp(user, akey, app_sig, t) ==
    IF user.kind = "raise" THEN [user |-> user, app_user |-> PyNone, ret |-> PyNone]
    ELSE VerifyUsers(user, _parse_vals(akey, app_sig, APP_PREFIX, t))

\* _verify_response, the unpacking of the two halves and the first call of
\* _parse_vals
VerifyHalves(skey, akey, prefix, halves, t) ==
    IF Len(halves) # 2 THEN [user |-> PyNone, app_user |-> PyNone, ret |-> PyNone]
    ELSE VerifyApp(_parse_vals(skey, halves[1], prefix, t), akey, halves[2], t)

\* a variant of _verify_response: the integration key the provider half
\* claims is compared with the ikey argument
_verify_response_frame_ikey(ikey, skey, akey, prefix, sig_response, t) ==
    LET fields == Split(Split(sig_response, Colon)[1], Pipe)
        decoded == IF Len(fields) = 3 THEN b64decode(fields[2]) ELSE PyRaise
        claims == IF decoded.kind = "str" THEN Split(decoded.val, Pipe) ELSE <<>>
    IN  IF Len(claims) = 3 /\ claims[2] # ikey
        THEN [user |-> PyNone, app_user |-> PyNone, ret |-> PyNone]
        ELSE VerifyHalves(skey, akey, prefix, Split(sig_response, Colon), t)

\* _verify_response(ikey, skey, akey, prefix, sig_response) at clock time t.
\* The bare except turns every exception of the try block into the return
\* of None.  Both calls of _parse_vals read the same clock value.
_verify_response_frame(ikey, skey, akey, prefix, sig_response, t) ==
    VerifyHalves(skey, akey, prefix, Split(sig_response, Colon), t)

_verify_response(ikey, skey, akey, prefix, sig_response, t) ==
    _verify_response_frame(ikey, skey, akey, prefix, sig_response, t).ret

verify_response(ikey, skey, akey, sig_response, t) ==
    _verify_response(ikey, skey, akey, AUTH_PREFIX, sig_response, t)

verify_enroll_response(ikey, skey, akey, sig_response, t) ==
    _verify_response(ikey, skey, akey, ENROLL_PREFIX, sig_response, t)

-----------------------------------------------------------------------------
(* The values the callers pass.  The state names them; Text gives the      *)
(* string of a name.                                                       *)

\* the first instant of the model, in seconds since the epoch
T0 == 1300000000

Text(name) ==
    CASE name = "alice" -> <<97, 108, 105, 99, 101>>
      [] name = "bob" -> <<98, 111, 98>>
      [] name = "a|b" -> <<97, 124, 98>>
      [] name = "" -> <<>>
      \* u'€', a unicode object outside ASCII
      [] name = "EURO" -> <<8364>>
      [] name = "IKEY" -> Rep(73, IKEY_LEN)
      [] name = "IKEY_OTHER" -> Rep(74, IKEY_LEN)
      [] name = "IKEY_SHORT" -> Rep(73, IKEY_LEN - 1)
      [] name = "IKEY_PIPE" -> Rep(73, IKEY_LEN - 1) \o Pipe
      [] name = "SKEY" -> Rep(83, SKEY_LEN)
      [] name = "SKEY_OTHER" -> Rep(84, SKEY_LEN)
      [] name = "SKEY_SHORT" -> Rep(83, SKEY_LEN - 1)
      [] name = "SKEY_NUL" -> Rep(83, SKEY_LEN) \o <<0>>
      [] name = "AKEY" -> Rep(65, AKEY_LEN)
      [] name = "AKEY_OTHER" -> Rep(66, AKEY_LEN)
      [] name = "AKEY_SHORT" -> Rep(65, AKEY_LEN - 1)
      [] name = "AKEY_NUL" -> Rep(65, AKEY_LEN) \o <<0>>
      [] name = "TX" -> DUO_PREFIX
      [] name = "APP" -> APP_PREFIX
      [] name = "AUTH" -> AUTH_PREFIX
      [] name = "ENROLL" -> ENROLL_PREFIX
      [] name = "ENROLL_REQUEST" -> ENROLL_REQUEST_PREFIX

\* what sign_request and sign_enroll_request are called with
SignUsers == {"alice", "a|b", "", "EURO"}
SignIkeys == {"IKEY", "IKEY_SHORT"}
SignSkeys == {"SKEY", "SKEY_SHORT"}
SignAkeys == {"AKEY", "AKEY_SHORT"}
SignArgs ==
    (SignIkeys \X SignSkeys \X SignAkeys \X SignUsers)
        \cup {<<"IKEY_PIPE", "SKEY", "AKEY", "alice">>}

\* what the provider may claim in the half it signs
ProviderUsers == {"bob"}
ProviderIkeys == {"IKEY_OTHER"}
ProviderPrefixes == {"AUTH", "ENROLL"}
BadPayloads == {"no_ikey", "extra_field", "bad_exp", "bad_b64"}

\* what may happen to a response on its way back through the browser
Tampers == {"sig1_first", "sig1_last", "sig2_first", "sig2_last",
            "drop_app", "extra_part", "no_sig_field", "swap"}

\* what verify_response and verify_enroll_response are called with
VerifyArgs ==
    {<<"IKEY", "SKEY", "AKEY">>, <<"IKEY_OTHER", "SKEY", "AKEY">>,
     <<"IKEY", "SKEY_OTHER", "AKEY">>, <<"IKEY", "SKEY_NUL", "AKEY">>,
     <<"IKEY", "SKEY", "AKEY_OTHER">>, <<"IKEY", "SKEY", "AKEY_NUL">>,
     <<"IKEY_PIPE", "SKEY", "AKEY">>}

\* the instants at which the clock is read, after the request is signed at
\* T0: the two durations and the second before each
ClockOffsets == {0, DUO_EXPIRE - 1, DUO_EXPIRE, APP_EXPIRE - 1, APP_EXPIRE}

\* how many times a call of a verify function is made on one response
MaxCalls == 2

-----------------------------------------------------------------------------
(* The strings in flight *)

NoRequest ==
    [op |-> "none", ikey |-> "", skey |-> "", akey |-> "", username |-> "",
     time |-> 0, result |-> "none"]
NoResponse ==
    [kind |-> "none", user |-> "", ikey |-> "", prefix |-> "", payload |-> "",
     time |-> 0, tamper |-> "none"]
NoCall ==
    [op |-> "none", ikey |-> "", skey |-> "", akey |-> "", time |-> 0, calls |-> 0,
     user |-> PyNone, app_user |-> PyNone, result |-> PyNone, prior |-> PyNone]

\* the name of what a sign function returned: a sentinel, or "token"
Outcome(ret) ==
    IF ret.val = ERR_USER THEN "ERR_USER"
    ELSE IF ret.val = ERR_IKEY THEN "ERR_IKEY"
    ELSE IF ret.val = ERR_SKEY THEN "ERR_SKEY"
    ELSE IF ret.val = ERR_AKEY THEN "ERR_AKEY"
    ELSE IF ret.val = ERR_UNKNOWN THEN "ERR_UNKNOWN"
    ELSE "token"

\* the string a sign call returned
RequestText(r) ==
    IF r.op = "sign_request"
    THEN sign_request(Text(r.ikey), Text(r.skey), Text(r.akey), Text(r.username), r.time).val
    ELSE sign_enroll_request(Text(r.ikey), Text(r.skey), Text(r.akey), Text(r.username), r.time).val

\* the half a holder of key signs over a body of its choice
SignBody(key, prefix, body) == SignCookie(key, prefix \o Pipe \o body)

\* the body that makes a half malformed: a payload with no integration key,
\* one with a field too many, one with 'never' for the expiration, or one
\* base64 character (six bits, no byte)
BadBody(kind, user, ikey, exp) ==
    CASE kind = "no_ikey" -> B64EncodeBytes(Join(<<user, exp>>, Pipe))
      [] kind = "extra_field" -> B64EncodeBytes(Join(<<user, ikey, ikey, exp>>, Pipe))
      [] kind = "bad_exp" ->
            B64EncodeBytes(Join(<<user, ikey, <<110, 101, 118, 101, 114>>>>, Pipe))
      [] kind = "bad_b64" -> <<89>>

\* the half the provider signs with its copy of the secret key at its clock
\* time p.time: the claims the protocol asks for, or a body no honest
\* provider sends
ProviderHalf(r, p) ==
    IF p.payload = "claims"
    THEN _sign_vals(Text(r.skey), <<Text(p.user), Text(p.ikey)>>, Text(p.prefix),
                    DUO_EXPIRE, p.time).val
    ELSE SignBody(Text(r.skey), Text(p.prefix),
                  BadBody(p.payload, Text(p.user), Text(p.ikey), Str(p.time + DUO_EXPIRE)))

\* another digest character
FlipHex(c) == IF c = DigestBase THEN DigestBase + 1 ELSE DigestBase

\* a signed value with the first or the last character of its signature
\* field replaced
SigChanged(parts, pos) ==
    Join(<<parts[1], parts[2],
           [i \in 1..Len(parts[3]) |->
               IF i = (IF pos = "first" THEN 1 ELSE Len(parts[3]))
               THEN FlipHex(parts[3][i]) ELSE parts[3][i]]>>,
         Pipe)
WithSig(half, pos) == SigChanged(Split(half, Pipe), pos)

\* a signed value without its signature field
NoSig(parts) == Join(<<parts[1], parts[2]>>, Pipe)

TamperedHalves(text, h1, h2, tamper) ==
    CASE tamper = "none" -> text
      [] tamper = "sig1_first" -> WithSig(h1, "first") \o Colon \o h2
      [] tamper = "sig1_last" -> WithSig(h1, "last") \o Colon \o h2
      [] tamper = "sig2_first" -> h1 \o Colon \o WithSig(h2, "first")
      [] tamper = "sig2_last" -> h1 \o Colon \o WithSig(h2, "last")
      [] tamper = "drop_app" -> h1
      [] tamper = "extra_part" -> text \o Colon \o h2
      [] tamper = "no_sig_field" -> NoSig(Split(h1, Pipe)) \o Colon \o h2
      [] tamper = "swap" -> h2 \o Colon \o h1

\* the provider's answer: its half, then the application half of the request
Answer(provider_half, request_text, tamper) ==
    TamperedHalves(provider_half \o Colon \o Split(request_text, Colon)[2],
                   provider_half, Split(request_text, Colon)[2], tamper)

\* the response string that reaches the server
WireText(r, p) ==
    IF p.kind = "echo" THEN RequestText(r)
    ELSE Answer(ProviderHalf(r, p), RequestText(r), p.tamper)

-----------------------------------------------------------------------------
(* The state machine: one login session *)

Init ==
    /\ now = T0
    /\ request = NoRequest
    /\ response = NoResponse
    /\ last = NoCall

\* time passes, as long as a call can still follow
Tick ==
    /\ request.result = "token"
    /\ last.op = "none" \/ (last.result.kind = "str" /\ last.calls < MaxCalls)
    /\ \E o \in ClockOffsets : T0 + o > now /\ now' = T0 + o
    /\ UNCHANGED <<request, response, last>>

\* the server calls sign_request
SignRequest ==
    /\ request.op = "none"
    /\ \E a \in SignArgs :
        request' = [op |-> "sign_request", ikey |-> a[1], skey |-> a[2], akey |-> a[3],
                    username |-> a[4], time |-> now,
                    result |-> Outcome(sign_request(Text(a[1]), Text(a[2]), Text(a[3]),
                                                    Text(a[4]), now))]
    /\ UNCHANGED <<now, response, last>>

\* the server calls sign_enroll_request
SignEnrollRequest ==
    /\ request.op = "none"
    /\ \E a \in SignArgs :
        request' = [op |-> "sign_enroll_request", ikey |-> a[1], skey |-> a[2],
                    akey |-> a[3], username |-> a[4], time |-> now,
                    result |-> Outcome(sign_enroll_request(Text(a[1]), Text(a[2]), Text(a[3]),
                                                           Text(a[4]), now))]
    /\ UNCHANGED <<now, response, last>>

\* what a sign function returned is handed to a verify function as it is
Echo ==
    /\ request.result = "token"
    /\ response.kind = "none"
    /\ response' = [NoResponse EXCEPT !.kind = "echo"]
    /\ UNCHANGED <<now, request, last>>

\* the prefix of the response the provider gives to a request
AnswerPrefix(r) == IF r.op = "sign_request" THEN "AUTH" ELSE "ENROLL"

\* the provider answers a request: it keeps the application half and signs
\* a half of its own for a user, an integration key and a kind of response
ProviderRespond ==
    /\ request.result = "token"
    /\ response.kind = "none"
    /\ \E u \in {request.username} \cup ProviderUsers,
          ik \in {request.ikey} \cup ProviderIkeys,
          pre \in ProviderPrefixes :
        response' = [kind |-> "provider", user |-> u, ikey |-> ik, prefix |-> pre,
                     payload |-> "claims", time |-> now, tamper |-> "none"]
    /\ UNCHANGED <<now, request, last>>

\* a holder of the secret key signs a body that is no list of three claims
ProviderMalformed ==
    /\ request.result = "token"
    /\ response.kind = "none"
    /\ \E pay \in BadPayloads :
        response' = [kind |-> "provider", user |-> request.username, ikey |-> request.ikey,
                     prefix |-> AnswerPrefix(request), payload |-> pay, time |-> now,
                     tamper |-> "none"]
    /\ UNCHANGED <<now, request, last>>

\* the provider's answer is altered before it reaches the server
Tamper ==
    /\ response.kind = "provider"
    /\ response.payload = "claims"
    /\ response.user = request.username
    /\ response.ikey = request.ikey
    /\ response.prefix = AnswerPrefix(request)
    /\ response.tamper = "none"
    /\ last.op = "none"
    /\ \E k \in Tampers : response' = [response EXCEPT !.tamper = k]
    /\ UNCHANGED <<now, request, last>>

\* the record of a call of a verify function: its arguments, the clock it
\* read, the locals of _verify_response and what it returned
CallRecord(op, ikey, skey, akey, calls, prior, frame) ==
    [op |-> op, ikey |-> ikey, skey |-> skey, akey |-> akey, time |-> now,
     calls |-> calls, user |-> frame.user, app_user |-> frame.app_user,
     result |-> frame.ret, prior |-> prior]

Call(op, ikey, skey, akey, calls, prior) ==
    CallRecord(op, ikey, skey, akey, calls, prior,
        _verify_response_frame(Text(ikey), Text(skey), Text(akey),
            IF op = "verify_response" THEN AUTH_PREFIX ELSE ENROLL_PREFIX,
            WireText(request, response), now))

\* the server calls verify_response on the response
VerifyResponse ==
    /\ response.kind # "none"
    /\ last.op = "none"
    /\ \E a \in VerifyArgs : last' = Call("verify_response", a[1], a[2], a[3], 1, PyNone)
    /\ UNCHANGED <<now, request, response>>

\* the server calls verify_enroll_response on the response
VerifyEnrollResponse ==
    /\ response.kind # "none"
    /\ last.op = "none"
    /\ \E a \in VerifyArgs : last' = Call("verify_enroll_response", a[1], a[2], a[3], 1, PyNone)
    /\ UNCHANGED <<now, request, response>>

\* the same call once more, on the same response string with the same keys
Replay ==
    /\ last.result.kind = "str"
    /\ last.calls < MaxCalls
    /\ last' = Call(last.op, last.ikey, last.skey, last.akey, last.calls + 1, last.result)
    /\ UNCHANGED <<now, request, response>>

Next ==
    \/ Tick
    \/ SignRequest
    \/ SignEnrollRequest
    \/ Echo
    \/ ProviderRespond
    \/ ProviderMalformed
    \/ Tamper
    \/ VerifyResponse
    \/ VerifyEnrollResponse
    \/ Replay

Spec == Init /\ [][Next]_vars

-----------------------------------------------------------------------------
(* What the properties speak of *)

Called == last.op # "none"
Accepted == last.result.kind = "str"

\* the prefix the called verify function expects of the first half
ExpectedPrefix == IF last.op = "verify_response" THEN "AUTH" ELSE "ENROLL"

HasPipe(name) == \E i \in 1..Len(Text(name)) : Text(name)[i] = 124

\* the response is the provider's answer as the provider made it
Untampered == response.kind = "provider" /\ response.tamper = "none"

\* the first half of the response is a half the provider signed over three
\* well-formed claims and stands where the provider put it
ProviderHalfIntact ==
    /\ response.kind = "provider"
    /\ response.payload = "claims"
    /\ response.tamper \in {"none", "sig2_first", "sig2_last"}
    /\ ~HasPipe(response.user)
    /\ ~HasPipe(response.ikey)

\* the provider answered the request as the protocol asks: the user and the
\* integration key of the request, the response to an authentication request
HonestAnswer ==
    /\ request.op = "sign_request"
    /\ Untampered
    /\ response.payload = "claims"
    /\ response.user = request.username
    /\ response.ikey = request.ikey
    /\ response.prefix = "AUTH"

\* verify_response is called with the keys the request was signed with
SameKeys ==
    /\ last.op = "verify_response"
    /\ last.ikey = request.ikey
    /\ last.skey = request.skey
    /\ last.akey = request.akey

\* the clock is below the expiration of both halves of the provider's answer
Unexpired(t) == t < response.time + 300 /\ t < request.time + 3600

\* the three fields of one half of the response string, its decoded payload
HalfFields(n) == Split(Split(WireText(request, response), Colon)[n], Pipe)
HalfClaims(n) == Split(b64decode(HalfFields(n)[2]).val, Pipe)

-----------------------------------------------------------------------------
(* The properties *)

\* C1, as the specification states it: verify_response, called with the
\* keys of a sign_request call and at its clock time on the very string
\* sign_request returned, returns the username.
C1_Original ==
    (request.op = "sign_request" /\ response.kind = "echo" /\ SameKeys
        /\ last.time = request.time)
        => last.result = PyStr(Text(request.username))

\* C1: a verify function returns None for the string a sign function
\* returned.  With the first half replaced by the provider's half (signed
\* under the same skey with prefix AUTH over the username and the ikey of
\* the request), verify_response with the same keys at the signing clock
\* time returns exactly the username, when neither the username nor the
\* ikey contains '|'.
C1_RoundTrip ==
    /\ (Called /\ response.kind = "echo") => last.result = PyNone
    /\ (HonestAnswer /\ SameKeys /\ last.time = request.time
            /\ ~HasPipe(request.username) /\ ~HasPipe(request.ikey))
        => last.result = PyStr(Text(request.username))

C1_Witness ==
    /\ HonestAnswer
    /\ SameKeys
    /\ last.time = request.time
    /\ request.username = "alice"
    /\ last.result = PyStr(Text("alice"))

\* C6: a sign function returns a token only when the username is not empty,
\* the ikey has 20 characters, the skey 40 and the akey at least 40;
\* otherwise it returns the sentinel of the first check that fails, in the
\* order username, ikey, skey, akey.
C6_Validation ==
    request.op # "none" =>
        LET u == Len(Text(request.username))
            ik == Len(Text(request.ikey))
            sk == Len(Text(request.skey))
            ak == Len(Text(request.akey))
        IN  /\ request.result = "token" => (u > 0 /\ ik = 20 /\ sk = 40 /\ ak >= 40)
            /\ u = 0 => request.result = "ERR_USER"
            /\ (u > 0 /\ ik # 20) => request.result = "ERR_IKEY"
            /\ (u > 0 /\ ik = 20 /\ sk # 40) => request.result = "ERR_SKEY"
            /\ (u > 0 /\ ik = 20 /\ sk = 40 /\ ak < 40) => request.result = "ERR_AKEY"
            /\ (u > 0 /\ ik = 20 /\ sk = 40 /\ ak >= 40)
                => request.result \in {"token", "ERR_UNKNOWN"}

C6_Witness ==
    /\ request.op = "sign_request"
    /\ request.username = "alice"
    /\ request.ikey = "IKEY_SHORT"
    /\ request.akey = "AKEY_SHORT"
    /\ request.result = "ERR_IKEY"

\* the response is no compound token of two halves of three fields over
\* three claims
Malformed ==
    \/ response.tamper \in {"drop_app", "extra_part", "no_sig_field"}
    \/ response.kind = "provider" /\ response.payload # "claims"

\* C7: a verify function raises nothing: it returns a username or None, and
\* None for a response that is malformed, badly signed, wrongly prefixed,
\* expired or that names two users.
C7_NeverRaises ==
    Called =>
        /\ last.result.kind \in {"str", "None"}
        /\ (last.user.kind = "raise" \/ last.app_user.kind = "raise") => last.result = PyNone
        /\ Malformed => last.result = PyNone
        /\ response.tamper \in {"sig1_first", "sig1_last", "sig2_first", "sig2_last"}
            => last.result = PyNone
        /\ (response.kind = "echo" \/ response.prefix # ExpectedPrefix
                \/ response.tamper = "swap") => last.result = PyNone
        /\ (response.kind = "provider" /\ ~Unexpired(last.time)) => last.result = PyNone
        /\ (response.kind = "provider" /\ response.user # request.username)
            => last.result = PyNone

C7_Witness ==
    /\ Called
    /\ response.payload = "bad_exp"
    /\ last.user.kind = "raise"
    /\ last.result = PyNone

\* C2: a half is taken only while the clock is below the expiration it
\* carries.  A provider half made at s, well formed, rightly prefixed and
\* checked with the key that signed it is taken at every clock value up to
\* s + 299 and is refused at s + 300 and later.
C2_Expiry ==
    /\ (Called /\ ProviderHalfIntact /\ response.prefix = ExpectedPrefix
            /\ last.skey = request.skey) =>
        /\ last.time <= response.time + 299 => last.user = PyStr(Text(response.user))
        /\ last.time >= response.time + 300 => last.user = PyNone
    /\ last.user.kind = "str" => last.time < PyInt(HalfClaims(1)[3]).val
    /\ last.app_user.kind = "str" => last.time < PyInt(HalfClaims(2)[3]).val

C2_Witness ==
    /\ Called
    /\ ProviderHalfIntact
    /\ last.time = response.time + 299
    /\ last.user = PyStr(Text(response.user))

\* the signature field of each half of the response is the HMAC, under the
\* key the verify function was given for that half, of the two fields
\* before it
SignedUnder(skey, akey) ==
    /\ HalfFields(1)[3] = _hmac_sha1(skey, HalfFields(1)[1] \o Pipe \o HalfFields(1)[2])
    /\ HalfFields(2)[3] = _hmac_sha1(akey, HalfFields(2)[1] \o Pipe \o HalfFields(2)[2])

SigTampers == {"sig1_first", "sig1_last", "sig2_first", "sig2_last"}

\* C3, as the specification states it: a verify function returns None
\* whenever a signature field is not the HMAC of the fields before it under
\* the verifier's key; a response with a character of a signature field
\* altered, or verified with an skey or an akey other than the one that
\* signed it, never gives a username.
C3_Original ==
    /\ Accepted => SignedUnder(Text(last.skey), Text(last.akey))
    /\ (Called /\ response.tamper \in SigTampers) => ~Accepted
    /\ (Called /\ (last.skey # request.skey \/ last.akey # request.akey)) => ~Accepted

\* C3: a verify function returns None whenever a signature field is not the
\* HMAC of the fields before it under the verifier's key; a response with a
\* character of a signature field altered never gives a username, nor does
\* one verified with an skey or an akey whose HMAC key block (the key padded
\* with zero bytes to 64 bytes) is not that of the key that signed it.
C3_SignatureBinding ==
    /\ Accepted => SignedUnder(Text(last.skey), Text(last.akey))
    /\ (Called /\ response.tamper \in SigTampers) => ~Accepted
    /\ (Called /\ (KeyBlock(Text(last.skey)) # KeyBlock(Text(request.skey))
                    \/ KeyBlock(Text(last.akey)) # KeyBlock(Text(request.akey))))
        => ~Accepted

C3_Witness ==
    /\ response.kind = "provider"
    /\ response.tamper = "sig2_last"
    /\ SameKeys
    /\ last.user = PyStr(Text(request.username))
    /\ last.result = PyNone

\* C4: a verify function returns a username only if both halves carry that
\* same username; two halves that are each taken but name different users
\* give None.
C4_UsernameBinding ==
    /\ Accepted =>
        /\ HalfClaims(1)[1] = last.result.val
        /\ HalfClaims(2)[1] = last.result.val
    /\ (last.user.kind = "str" /\ last.app_user.kind = "str" /\ last.user # last.app_user)
        => last.result = PyNone
    /\ (Called /\ response.kind = "provider" /\ response.user # request.username)
        => last.result = PyNone

C4_Witness ==
    /\ Untampered
    /\ last.user = PyStr(Text("bob"))
    /\ last.app_user = PyStr(Text("alice"))
    /\ last.result = PyNone

\* C5: the first half is taken only if its prefix field is the one the
\* called function expects (AUTH for verify_response, ENROLL for
\* verify_enroll_response), the second only if its prefix field is APP; a
\* rightly signed response of the other kind gives None.
C5_Prefix ==
    /\ last.user.kind = "str" => HalfFields(1)[1] = Text(ExpectedPrefix)
    /\ last.app_user.kind = "str" => HalfFields(2)[1] = APP_PREFIX
    /\ (Called /\ (response.kind = "echo" \/ response.prefix # ExpectedPrefix))
        => last.result = PyNone

C5_Witness ==
    /\ Untampered
    /\ response.payload = "claims"
    /\ response.prefix = "ENROLL"
    /\ response.user = request.username
    /\ SameKeys
    /\ Unexpired(last.time)
    /\ last.result = PyNone

\* C8, as the specification states it: a response that a verify function
\* has taken is used up; the same call made again is not taken.
C8_Original ==
    (last.calls >= 2 /\ last.prior.kind = "str") => last.result # last.prior

\* C8: the verify functions keep no record of what they have taken.  After
\* a call has returned the username, the same call on the same response
\* returns that username again while the clock is below both expirations,
\* and None once it is not.
C8_Replay ==
    (last.calls >= 2 /\ last.prior.kind = "str") =>
        IF Unexpired(last.time) THEN last.result = last.prior ELSE last.result = PyNone

C8_Witness ==
    /\ last.calls >= 2
    /\ last.prior.kind = "str"
    /\ last.result = last.prior

\* an integration key that no call of the model passes
ReferenceIkey == Rep(82, IKEY_LEN)

\* C9: the ikey argument of a verify function has no part in the result:
\* the call returns what it returns under any other ikey, and a response
\* is taken whatever integration key the call passes and whatever
\* integration key the provider half claims.
C9_IkeyNotEnforced ==
    Called =>
        /\ last.result =
            _verify_response(ReferenceIkey, Text(last.skey), Text(last.akey),
                             Text(ExpectedPrefix), WireText(request, response), last.time)
        /\ (Untampered /\ response.payload = "claims" /\ response.user = request.username
                /\ response.prefix = ExpectedPrefix
                /\ last.skey = request.skey /\ last.akey = request.akey
                /\ Unexpired(last.time)
                /\ ~HasPipe(request.username) /\ ~HasPipe(request.ikey)
                /\ ~HasPipe(response.ikey))
            => last.result = PyStr(Text(request.username))

C9_Witness ==
    /\ Accepted
    /\ request.ikey = "IKEY"
    /\ response.ikey = "IKEY_OTHER"
    /\ last.ikey = "IKEY_PIPE"

\* C10, as the specification states it: for a request signed at s with
\* inputs the sign function takes and a provider half of expiration e over
\* the same username and ikey, verify_response at t with the same keys
\* returns the username exactly when t < e and t < s + 3600.
C10_Original ==
    (HonestAnswer /\ SameKeys) =>
        (last.result = PyStr(Text(request.username)) <=> Unexpired(last.time))

\* C10: for a request signed at s whose username and ikey contain no '|'
\* and a provider half of expiration e over the same username and ikey,
\* verify_response at t with the same keys returns the username exactly
\* when t < e and t < s + 3600.
C10_Window ==
    (HonestAnswer /\ SameKeys /\ ~HasPipe(request.username) /\ ~HasPipe(request.ikey)) =>
        (last.result = PyStr(Text(request.username)) <=> Unexpired(last.time))

C10_Witness ==
    /\ HonestAnswer
    /\ SameKeys
    /\ last.time < response.time + 300
    /\ last.time >= request.time + 3600
    /\ last.user = PyStr(Text(request.username))
    /\ last.result = PyNone

====
